---- MODULE Spec2Model ----
(***************************************************************************)
(* Model of the MALD retrieval pipeline: the vector store                  *)
(* (mald/rag/vector_store.py), the embedding engine                        *)
(* (mald/rag/embeddings.py) and the RAG engine (mald/rag/rag_engine.py),   *)
(* together with the index directory they persist to and the knowledge     *)
(* base directory they read.                                               *)
(*                                                                         *)
(* Representation of numbers.  A vector of floats is a record              *)
(*   [len |-> number of components, comp |-> <<c1, c2>>]                   *)
(* standing for the vector (c1, c2, 0, ..., 0) of that length, with        *)
(* integer c1, c2.  A normalized vector carries n2, the squared norm it was*)
(* divided by: [len, comp, n2] stands for comp / sqrt(n2).  A similarity   *)
(* score is [num, den2], standing for num / sqrt(den2).  All comparisons   *)
(* of scores are exact (signed squares); floating point rounding is not    *)
(* modelled.                                                               *)
(***************************************************************************)
EXTENDS Integers, Sequences, FiniteSets, TLC

\* ------------------------------------------------------------------ bounds
MaxTime == 2
MaxStore == 3
MaxVectors == 2
MaxBatch == 2
MaxK == 1
MaxSpans == 2
MaxKills == 1

\* ------------------------------------------------------- program constants
FallbackDim == 384
OllamaDim == 768

VARIABLES
    hasNumpy,       \* HAS_NUMPY: whether numpy could be imported
    dirExists,      \* whether the index directory index_path exists
    disk,           \* the four files of the index directory
    vs,             \* the VectorStore object
    kb,             \* the knowledge base directory: path -> file state
    indexed_files,  \* RAGEngine.indexed_files
    alive,          \* whether a RAGEngine object exists in a running process
    kills,          \* how many processes were killed during an index run
    emb,            \* the EmbeddingEngine object
    notes,          \* the markdown files of the knowledge base: their content
    last            \* the last call and what it returned

vars == <<hasNumpy, dirExists, disk, vs, kb, indexed_files, alive, kills, emb,
          notes, last>>

\* ----------------------------------------------------------------- values
None == <<>>
Some(x) == <<x>>

\* The relative paths of the knowledge base's two documents.
Paths == {1, 2}

Comps == {<<0, 0>>, <<1, 0>>, <<1, 1>>}

Dims == {FallbackDim, OllamaDim}

\* The vectors callers pass: of the store's default dimension, and one of
\* another dimension.
Vectors ==
    {[len |-> FallbackDim, comp |-> c] : c \in Comps}
        \cup {[len |-> OllamaDim, comp |-> <<1, 0>>]}

EmptyDict == [i \in {} |-> 0]

Sign(x) == IF x > 0 THEN 1 ELSE IF x < 0 THEN -1 ELSE 0

SumSq(c) == c[1] * c[1] + c[2] * c[2]

\* sum(a * b for a, b in zip(doc_vec, query_vec)); np.dot on equal widths
Dot(a, b) == IF a.len = 0 \/ b.len = 0 THEN 0
             ELSE a.comp[1] * b.comp[1] + a.comp[2] * b.comp[2]

Similarity(a, b) == [num |-> Dot(a, b), den2 |-> a.n2 * b.n2]

\* s < t for scores num / sqrt(den2), den2 > 0
ScoreLt(s, t) ==
    Sign(s.num) * s.num * s.num * t.den2 < Sign(t.num) * t.num * t.num * s.den2

ScoreEq(s, t) == ~ScoreLt(s, t) /\ ~ScoreLt(t, s)

\* ------------------------------------------------------ JSON object keys
Digits == <<"0", "1", "2", "3", "4", "5", "6", "7", "8", "9">>

RECURSIVE IntToStr(_)
IntToStr(n) == IF n < 10 THEN <<Digits[n + 1]>>
               ELSE IntToStr(n \div 10) \o <<Digits[(n % 10) + 1]>>

DigitVal(c) == CHOOSE d \in 0..9 : Digits[d + 1] = c

RECURSIVE StrToInt(_)
StrToInt(s) == IF Len(s) = 1 THEN DigitVal(s[1])
               ELSE 10 * StrToInt(SubSeq(s, 1, Len(s) - 1)) + DigitVal(s[Len(s)])

\* json.dump of a dict with integer keys: the keys become strings
json_dump_documents(documents) ==
    [s \in {IntToStr(i) : i \in DOMAIN documents} |->
        documents[CHOOSE i \in DOMAIN documents : IntToStr(i) = s]]

\* {int(k): v for k, v in docs_data.items()}
json_load_documents(data) ==
    [i \in {StrToInt(s) : s \in DOMAIN data} |->
        data[CHOOSE s \in DOMAIN data : StrToInt(s) = i]]

\* ------------------------------------------------------------ VectorStore
NewStore(dimension) ==
    [documents |-> EmptyDict, vectors |-> <<>>, next_id |-> 0,
     dimension |-> dimension]

\* Embeddings of differing lengths
Ragged(vectors) ==
    \E i \in 1..Len(vectors) : vectors[i].len # vectors[1].len

\* _normalize_vectors leaving the vectors as they are given
normalize_vector_asgiven(v) == [len |-> v.len, comp |-> v.comp, n2 |-> 1]

\* _normalize_vectors on one vector: the vector comp / sqrt(n2), n2 the
\* squared norm, or 1 where the norm is 0
normalize_vector(v) ==
    [len |-> v.len, comp |-> v.comp,
     n2 |-> IF SumSq(v.comp) = 0 THEN 1 ELSE SumSq(v.comp)]

normalize_vectors(vectors) ==
    [i \in 1..Len(vectors) |-> normalize_vector(vectors[i])]

\* DimensionMismatch checking arrays only
DimensionMismatch_arrayonly(store, embeddings, asArray, numpy) ==
    numpy /\ asArray /\ embeddings[1].len # store.dimension

\* The dimension check of add_documents: the array's shape[1], or the
\* length of the first embedding of a list.
DimensionMismatch(store, embeddings, asArray, numpy) ==
    IF numpy /\ asArray
    THEN embeddings[1].len # store.dimension
    ELSE Len(embeddings) > 0 /\ embeddings[1].len # store.dimension

\* With numpy, np.array(normalized_embeddings, dtype=np.float32) of a ragged
\* list raises, and so does np.vstack of rows of another width than the
\* stored array's.
ArrayAppendFails(store, embeddings, numpy) ==
    numpy /\ (Ragged(embeddings) \/ embeddings[1].len # store.dimension)

StoreDocuments(store, documents) ==
    LET start_id == store.next_id
        new == start_id..(start_id + Len(documents) - 1)
    IN [id \in (DOMAIN store.documents) \cup new |->
          IF id \in new THEN documents[id - start_id + 1]
          ELSE store.documents[id]]

\* NextIdAfterAdd counting the call, not its documents
NextIdAfterAdd_one(store, num_docs) == store.next_id + 1

\* self.next_id += num_docs
NextIdAfterAdd(store, num_docs) == store.next_id + num_docs

add_documents(store, documents, embeddings, asArray, numpy) ==
    IF DimensionMismatch(store, embeddings, asArray, numpy)
    THEN [err |-> "dimension", store |-> store]
    ELSE IF ArrayAppendFails(store, embeddings, numpy)
    THEN [err |-> "numpy", store |-> store]
    ELSE [err |-> "none",
          store |-> [documents |-> StoreDocuments(store, documents),
                     vectors |-> store.vectors \o normalize_vectors(embeddings),
                     next_id |-> NextIdAfterAdd(store, Len(documents)),
                     dimension |-> store.dimension]]

\* i ranks before j in the result: higher score first; among equal scores
\* the stable list sort keeps the lower index first, while the reversed
\* argsort puts the higher index first.
RanksBefore(sim, i, j, numpy) ==
    \/ ScoreLt(sim[j], sim[i])
    \/ ScoreEq(sim[i], sim[j]) /\ (IF numpy THEN i > j ELSE i < j)

RECURSIVE OrderDesc(_, _, _)
OrderDesc(S, sim, numpy) ==
    IF S = {} THEN <<>>
    ELSE LET b == CHOOSE i \in S :
                    \A j \in S \ {i} : RanksBefore(sim, i, j, numpy)
         IN <<b>> \o OrderDesc(S \ {b}, sim, numpy)

\* np.argsort(similarities)[-k:][::-1] and similarities[:k]
TopK(order, k, numpy) ==
    IF numpy
    THEN (IF k = 0 THEN order
          ELSE SubSeq(order, 1, IF k < Len(order) THEN k ELSE Len(order)))
    ELSE SubSeq(order, 1, IF k < Len(order) THEN k ELSE Len(order))

search(store, query_embedding, k, numpy) ==
    IF Cardinality(DOMAIN store.documents) = 0
    THEN [err |-> "none", results |-> <<>>]
    ELSE IF numpy /\ query_embedding.len # store.dimension
    THEN [err |-> "numpy", results |-> <<>>]
    ELSE
      LET q == normalize_vector(query_embedding)
          n == Len(store.vectors)
          sim == [idx \in 0..(n - 1) |-> Similarity(store.vectors[idx + 1], q)]
          top == TopK(OrderDesc(0..(n - 1), sim, numpy), k, numpy)
          kept == SelectSeq(top, LAMBDA idx : idx \in DOMAIN store.documents)
      IN [err |-> "none",
          results |-> [r \in 1..Len(kept) |->
                         [doc |-> store.documents[kept[r]],
                          score |-> sim[kept[r]],
                          idx |-> kept[r]]]]

\* clear leaving the vectors in place
clear_keepvectors(store) ==
    [documents |-> EmptyDict, vectors |-> store.vectors, next_id |-> 0,
     dimension |-> store.dimension]

clear(store) ==
    [documents |-> EmptyDict, vectors |-> <<>>, next_id |-> 0,
     dimension |-> store.dimension]

\* ---------------------------------------------------- the index directory
\* vectors: vectors.npy (numpy) or vectors.json; documents: documents.json;
\* metadata: metadata.json; indexed: indexed_files.json.  Each is None or
\* Some(content).
NoFiles == [vectors |-> None, documents |-> None, metadata |-> None,
            indexed |-> None]

StoreMetadata(store, numpy) ==
    [dimension |-> store.dimension, next_id |-> store.next_id,
     num_documents |-> Cardinality(DOMAIN store.documents),
     has_numpy |-> numpy]

\* save_index writing also where the directory does not exist
save_index_mkdir(store, d, exists, numpy, writes) ==
    [vectors |-> IF writes >= 1 THEN Some(store.vectors) ELSE d.vectors,
     documents |-> IF writes >= 2
                   THEN Some(json_dump_documents(store.documents))
                   ELSE d.documents,
     metadata |-> IF writes >= 3 THEN Some(StoreMetadata(store, numpy))
                  ELSE d.metadata,
     indexed |-> d.indexed]

\* save_index, stopped after `writes` of its three writes (3: all of them).
\* Without the directory the first write raises and nothing is written:
\* only index_path.parent is created.
save_index(store, d, exists, numpy, writes) ==
    IF ~exists THEN d
    ELSE [vectors |-> IF writes >= 1 THEN Some(store.vectors) ELSE d.vectors,
          documents |-> IF writes >= 2
                        THEN Some(json_dump_documents(store.documents))
                        ELSE d.documents,
          metadata |-> IF writes >= 3 THEN Some(StoreMetadata(store, numpy))
                       ELSE d.metadata,
          indexed |-> d.indexed]

load_index(d, dimension) ==
    IF d.metadata = None THEN NewStore(dimension)
    ELSE [next_id |-> d.metadata[1].next_id,
          dimension |-> d.metadata[1].dimension,
          documents |-> IF d.documents = None THEN EmptyDict
                        ELSE json_load_documents(d.documents[1]),
          vectors |-> IF d.vectors = None THEN <<>> ELSE d.vectors[1]]

\* -------------------------------------------------------- EmbeddingEngine
\* A text is [kind, a, b]: a document's embed text (title and content) is
\* determined by its path a and the version b of its content; a query's by
\* its characters (a: its code, b: 0).
DocText(p, m) == [kind |-> "doc", a |-> p, b |-> m]

Backends == {"fallback", "sentence-transformers", "ollama"}

\* The digest of a text, as two components; distinct document texts get
\* distinct directions.
HashComp(text) ==
    IF text.kind = "doc" THEN <<1, text.a + 2 * text.b>>
    ELSE <<1, 3 - text.a>>

simple_hash_embed(text) == [len |-> FallbackDim, comp |-> HashComp(text)]

fallback_embed(texts) == [i \in 1..Len(texts) |-> simple_hash_embed(texts[i])]

\* What the embedding services answer for a text.
OllamaVector(text) == [len |-> OllamaDim, comp |-> <<HashComp(text)[2], 1>>]

ModelVector(text, dim) == [len |-> dim, comp |-> <<HashComp(text)[2], 2>>]

EmptyVector == [len |-> 0, comp |-> <<0, 0>>]

\* _load_model: libOK says whether sentence_transformers imports and loads
\* the model, probe is the answer of GET /api/tags ("ok": status 200,
\* "non200", "exception").
load_model(backend, libOK, probe) ==
    IF backend = "sentence-transformers"
    THEN (IF libOK THEN "library" ELSE "fallback")
    ELSE IF backend = "ollama"
    THEN (IF probe = "ok" THEN "ollama" ELSE "fallback")
    ELSE "fallback"

\* modelDim: what get_sentence_embedding_dimension() of a loaded library
\* model reports.
get_dimension(e) ==
    IF e.model = "library" THEN e.modelDim
    ELSE IF e.backend = "ollama" THEN OllamaDim
    ELSE FallbackDim

OllamaOutcomes == {"ok", "noembedding", "non200", "exception"}

\* One pass of the request loop of _ollama_embed: outcomes[i] is what the
\* request for texts[i] does.
OllamaAnswer(text, outcome) ==
    IF outcome = "ok" THEN OllamaVector(text)
    ELSE IF outcome = "noembedding" THEN EmptyVector
    ELSE simple_hash_embed(text)

Returned(vectors) == [raised |-> FALSE, vectors |-> vectors]

Raised == [raised |-> TRUE, vectors |-> <<>>]

\* The try block of _ollama_embed.  A request that raises (connection
\* refused, timeout) ends it; np.array(embeddings) of a ragged list raises
\* (numpy >= 1.24) or builds an array of objects (older numpy):
\* raggedRaises says which.
OllamaRequests(texts, outcomes, numpy, raggedRaises) ==
    IF \E i \in 1..Len(texts) : outcomes[i] = "exception"
    THEN Raised
    ELSE LET embeddings ==
               [i \in 1..Len(texts) |-> OllamaAnswer(texts[i], outcomes[i])]
         IN IF numpy /\ raggedRaises /\ Ragged(embeddings)
            THEN Raised
            ELSE Returned(embeddings)

\* OllamaRecovery returning what the loop had collected
OllamaRecovery_partial(texts, outcomes) ==
    LET first == CHOOSE i \in 1..Len(texts) :
                    /\ outcomes[i] = "exception"
                    /\ \A j \in 1..(i - 1) : outcomes[j] # "exception"
    IN Returned([i \in 1..(first - 1) |-> OllamaAnswer(texts[i], outcomes[i])])

\* What the except clause of _ollama_embed returns
OllamaRecovery(texts, outcomes) == Returned(fallback_embed(texts))

ollama_embed(texts, outcomes, numpy, raggedRaises) ==
    LET r == OllamaRequests(texts, outcomes, numpy, raggedRaises)
    IN IF r.raised THEN OllamaRecovery(texts, outcomes) ELSE r

\* model.encode(texts): encodeOK says whether it returns
Encode(e, texts, encodeOK) ==
    IF encodeOK
    THEN Returned([i \in 1..Len(texts) |-> ModelVector(texts[i], e.modelDim)])
    ELSE Raised

\* embed(texts)
embed(e, texts, encodeOK, outcomes, numpy, raggedRaises) ==
    IF e.model = "fallback" THEN Returned(fallback_embed(texts))
    ELSE LET r == IF e.model = "library" THEN Encode(e, texts, encodeOK)
                  ELSE ollama_embed(texts, outcomes, numpy, raggedRaises)
         IN IF r.raised THEN Returned(fallback_embed(texts)) ELSE r

\* EmbeddingEngine() as RAGEngine.__init__ constructs it
DefaultEmbedding ==
    [backend |-> "fallback", model |-> "fallback", modelDim |-> FallbackDim]

\* -------------------------------------------------------------- RAGEngine
\* A knowledge base file: whether it exists and its modification time (the
\* time of its last write; it is kept while the file is deleted, so that a
\* file written again gets a later time).
NoFile == [exists |-> FALSE, mtime |-> 0]

\* parse_knowledge_base: the relative paths of the markdown files found
ParsedPaths(k) == {p \in Paths : k[p].exists}

\* NeedsIndexing with <= for <
NeedsIndexing_le(record, p, file_mtime) ==
    p \notin DOMAIN record \/ record[p] <= file_mtime

\* rel_path not in self.indexed_files or self.indexed_files[rel_path] < file_mtime
NeedsIndexing(record, p, file_mtime) ==
    p \notin DOMAIN record \/ record[p] < file_mtime

\* NewDocuments without the record: the whole corpus
NewDocuments_all(record, k) == ParsedPaths(k)

NewDocuments(record, k) ==
    {p \in ParsedPaths(k) : NeedsIndexing(record, p, k[p].mtime)}

RecordAfter(record, k) ==
    [p \in (DOMAIN record) \cup NewDocuments(record, k) |->
        IF p \in NewDocuments(record, k) THEN k[p].mtime ELSE record[p]]

\* The sequence in which the directory scan yields a set of paths (the
\* scan of an unchanged directory repeats its order; taken as ascending).
RECURSIVE ScanOrder(_)
ScanOrder(S) ==
    IF S = {} THEN <<>>
    ELSE LET p == CHOOSE x \in S : \A y \in S : x <= y
         IN <<p>> \o ScanOrder(S \ {p})

DocMetadata(p, k) == [path |-> p, modified |-> k[p].mtime]

\* _save_indexed_files: fails (logged) when the directory does not exist
save_indexed_files(record, d, exists) ==
    IF ~exists THEN d ELSE [d EXCEPT !.indexed = Some(record)]

\* _load_indexed_files
load_indexed_files(d) == IF d.indexed = None THEN EmptyDict ELSE d.indexed[1]

\* Python's str.strip on a query, a sequence of characters
RECURSIVE Strip(_)
Strip(q) ==
    IF q = <<>> THEN q
    ELSE IF Head(q) = " " THEN Strip(Tail(q))
    ELSE IF q[Len(q)] = " " THEN Strip(SubSeq(q, 1, Len(q) - 1))
    ELSE q

QueryList == << <<>>, <<" ">>, <<"a">>, <<" ", "b">> >>

Queries == {QueryList[i] : i \in DOMAIN QueryList}

QueryText(q) ==
    [kind |-> "query", a |-> CHOOSE i \in DOMAIN QueryList : QueryList[i] = q,
     b |-> 0]

\* min_score as a fraction <<p, q>>, q > 0: 0.1 (the default) and 0.8
MinScores == {<<1, 10>>, <<4, 5>>}

\* score >= min_score
ScoreAtLeast(s, ms) ==
    LET l == ms[2] * s.num
    IN Sign(l) * l * l >= Sign(ms[1]) * ms[1] * ms[1] * s.den2

\* BlankQuery without the strip
BlankQuery_nostrip(query) == query = <<>>

\* not query.strip()
BlankQuery(query) == Strip(query) = <<>>

\* RAGEngine.search: what it returns and the calls it makes
rag_search(e, store, query, k, min_score, numpy) ==
    IF BlankQuery(query)
    THEN [err |-> "none", results |-> <<>>, embedCalls |-> 0, storeCalls |-> 0]
    ELSE LET qv == embed(e, <<QueryText(query)>>, TRUE, <<"ok">>, numpy,
                        TRUE).vectors
             r == search(store, qv[1], k, numpy)
         IN [err |-> r.err,
             results |-> SelectSeq(r.results,
                                   LAMBDA x : ScoreAtLeast(x.score, min_score)),
             embedCalls |-> 1, storeCalls |-> 1]

\* ------------------------------------------------------- markdown parser
\* A string is a sequence of pieces; the file name "x.md" is <<"x", ".md">>.
\* The notes lie in the knowledge base's root, so that a note's relative
\* path is its file name.
MdSuffix == ".md"

Stems == {"index", "test_note", "note2"}

NotePath(stem) == <<stem, MdSuffix>>

NoteFiles == {NotePath(stem) : stem \in Stems}

\* path.stem
PathStem(path) == path[Len(path) - 1]

\* The H1 heading the note of a name is written with
Headings ==
    [stem \in Stems |-> IF stem = "index" THEN "Index"
                        ELSE IF stem = "test_note" THEN "Test Note"
                        ELSE "Note Two"]

\* The pieces of a note's content that the link patterns match:
\* [[target]] and [[target|display]], and [text](url)
WikiLink(target, display) ==
    [kind |-> "wiki", text |-> target, display |-> display]

MdLink(url) == [kind |-> "md", text |-> url, display |-> TRUE]

LinkSpans ==
    {WikiLink(<<"test_note">>, FALSE), WikiLink(<<"Test Note">>, FALSE),
     WikiLink(<<"note2">>, FALSE), WikiLink(<<"missing">>, FALSE),
     WikiLink(<<"test_note">>, TRUE), MdLink(NotePath("test_note"))}

\* The contents notes are written with: no link, one link, or a wikilink
\* and a markdown link to the same note
Contents ==
    {{}} \cup {{span} : span \in LinkSpans}
         \cup {{WikiLink(<<"test_note">>, FALSE), MdLink(NotePath("test_note"))}}

\* A file of the knowledge base: absent, or a note with heading and content
NoNote == [exists |-> FALSE, h1 |-> "", spans |-> {}]

Note(stem, spans) == [exists |-> TRUE, h1 |-> Headings[stem], spans |-> spans]

\* url.endswith('.md')
EndsWithMd(text) == Len(text) > 0 /\ text[Len(text)] = MdSuffix

\* url.startswith('http')
StartsWithHttp(text) == Len(text) > 0 /\ text[1] = "http"

\* _extract_title
extract_title(note, path) == IF note.h1 # "" THEN note.h1 ELSE PathStem(path)

\* _extract_links: the targets of the wikilinks (the part before '|'), and
\* the urls of the markdown links to local .md files
extract_links(note) ==
    {span.text : span \in {x \in note.spans : x.kind = "wiki"}}
        \cup {span.text : span \in {x \in note.spans :
                                       /\ x.kind = "md"
                                       /\ EndsWithMd(x.text)
                                       /\ ~StartsWithHttp(x.text)}}

\* parse_knowledge_base: the documents by relative path
parse_knowledge_base(files) ==
    [path \in {f \in NoteFiles : files[f].exists} |->
        [path |-> path, title |-> extract_title(files[path], path),
         links |-> extract_links(files[path])]]

\* LinkPath taking the link as it is written
LinkPath_asis(link) == link

\* link if link.endswith('.md') else f"{link}.md"
LinkPath(link) == IF EndsWithMd(link) THEN link ELSE link \o <<MdSuffix>>

IndexMd == NotePath("index")

\* find_orphaned_files
find_orphaned_files(files) ==
    LET documents == parse_knowledge_base(files)
        linked_files == {LinkPath(link) : link \in
                            UNION {documents[d].links : d \in DOMAIN documents}}
    IN {rel_path \in DOMAIN documents :
            rel_path \notin linked_files /\ rel_path # IndexMd}

\* The edges of generate_graph_data: one per link of a document whose
\* target path is a document
GraphEdges(documents) ==
    UNION {{[source |-> d, target |-> LinkPath(link), link |-> link] :
               link \in {l \in documents[d].links :
                            LinkPath(l) \in DOMAIN documents}} :
           d \in DOMAIN documents}

\* generate_graph_data
generate_graph_data(files) ==
    LET documents == parse_knowledge_base(files)
    IN [nodes |-> {[id |-> d, title |-> documents[d].title] :
                      d \in DOMAIN documents},
        edges |-> GraphEdges(documents)]

\* get_backlinks of the document at path: the files found by the wikilink
\* pattern (on the document's file stem) and by the markdown link pattern
\* (on its file name); a file found by both is listed twice
get_backlinks(files, path) ==
    LET others == {f \in NoteFiles : files[f].exists /\ f # path}
    IN {[file |-> f, by |-> "wikilink"] :
           f \in {g \in others :
                    \E span \in files[g].spans :
                       span.kind = "wiki" /\ span.text = <<PathStem(path)>>}}
       \cup
       {[file |-> f, by |-> "mdlink"] :
           f \in {g \in others :
                    \E span \in files[g].spans :
                       span.kind = "md" /\ span.text = path}}

\* ---------------------------------------- markdown parser: document text
\* The content of a document as text: a sequence of characters, a word
\* ("a", "b", "http") or the suffix ".md" being one piece.
Pieces == {"[", "]", "(", ")", "|", "#", " ", "-", ".md", "http", "a", "b"}

\* The pieces that are made of the characters of [a-zA-Z0-9_-]
TagChars == {"a", "b", "http", "-"}

\* What a document is written of: a wikilink [[target]] or
\* [[target|display]], with or without blanks around the target; a hyperlink
\* [text](url); a hashtag; a heading; a word.
WikiSpan(target, display, padded) ==
    [kind |-> "wiki", target |-> target, display |-> display,
     padded |-> padded]

HyperSpan(text, url) == [kind |-> "md", text |-> text, url |-> url]

TagSpan(name) == [kind |-> "tag", name |-> name]

TextSpan(text) == [kind |-> "text", text |-> text]

ContentSpans ==
    {WikiSpan(<<"a">>, None, FALSE),
     WikiSpan(<<"a">>, Some(<<"b">>), TRUE),
     WikiSpan(<<"b", "#", "a">>, None, TRUE),
     HyperSpan(<<"a">>, <<"b", ".md">>),
     HyperSpan(<<"a">>, <<"http", "b", ".md">>),
     HyperSpan(<<"a">>, <<"b", ".md", "#", "a">>),
     HyperSpan(<<"b">>, <<"b">>),
     TagSpan(<<"a">>),
     TagSpan(<<"b", "-", "a">>),
     TextSpan(<<"#", " ", "a">>),
     TextSpan(<<"a">>),
     TextSpan(<<"[", "a", "]">>)}

\* The text of one span
SpanText(span) ==
    IF span.kind = "wiki"
    THEN LET blank == IF span.padded THEN <<" ">> ELSE <<>>
             display == IF span.display = None THEN <<>>
                        ELSE <<"|">> \o span.display[1]
         IN <<"[", "[">> \o blank \o span.target \o blank \o display
                \o <<"]", "]">>
    ELSE IF span.kind = "md"
    THEN <<"[">> \o span.text \o <<"]", "(">> \o span.url \o <<")">>
    ELSE IF span.kind = "tag" THEN <<"#">> \o span.name
    ELSE span.text

\* What stands between two spans: nothing or a blank
Separators == {<<>>, <<" ">>}

\* The end of a greedy character class: the position after the longest run
\* of pieces of the class that starts at position i
RECURSIVE RunEnd(_, _, _)
RunEnd(c, i, class) ==
    IF i <= Len(c) /\ c[i] \in class THEN RunEnd(c, i + 1, class) ELSE i

\* re.findall(r'\[\[([^\]]+)\]\]', content) from position i on: the
\* leftmost match, then the matches after its end
RECURSIVE findall_wikilinks(_, _)
findall_wikilinks(c, i) ==
    IF i > Len(c) THEN <<>>
    ELSE LET j == RunEnd(c, i + 2, Pieces \ {"]"})
             matched == /\ c[i] = "["
                        /\ i + 1 <= Len(c) /\ c[i + 1] = "["
                        /\ j > i + 2
                        /\ j + 1 <= Len(c) /\ c[j] = "]" /\ c[j + 1] = "]"
         IN IF matched
            THEN <<SubSeq(c, i + 2, j - 1)>> \o findall_wikilinks(c, j + 2)
            ELSE findall_wikilinks(c, i + 1)

\* re.findall(r'\[([^\]]+)\]\(([^)]+)\)', content) from position i on
RECURSIVE findall_md_links(_, _)
findall_md_links(c, i) ==
    IF i > Len(c) THEN <<>>
    ELSE LET j == RunEnd(c, i + 1, Pieces \ {"]"})
             m == RunEnd(c, j + 2, Pieces \ {")"})
             matched == /\ c[i] = "["
                        /\ j > i + 1
                        /\ j + 1 <= Len(c) /\ c[j] = "]" /\ c[j + 1] = "("
                        /\ m > j + 2
                        /\ m <= Len(c) /\ c[m] = ")"
         IN IF matched
            THEN <<[text |-> SubSeq(c, i + 1, j - 1),
                    url |-> SubSeq(c, j + 2, m - 1)]>>
                     \o findall_md_links(c, m + 1)
            ELSE findall_md_links(c, i + 1)

\* re.findall(r'#([a-zA-Z0-9_-]+)', content) from position i on
RECURSIVE findall_tags(_, _)
findall_tags(c, i) ==
    IF i > Len(c) THEN <<>>
    ELSE LET j == RunEnd(c, i + 1, TagChars)
         IN IF c[i] = "#" /\ j > i + 1
            THEN <<SubSeq(c, i + 1, j - 1)>> \o findall_tags(c, j)
            ELSE findall_tags(c, i + 1)

\* link.split('|')[0]
SplitFirst(link) == SubSeq(link, 1, RunEnd(link, 1, Pieces \ {"|"}) - 1)

\* _extract_links on the text, the wikilinks taken without strip()
extract_links_of_nostrip(content) ==
    LET wikilinks == findall_wikilinks(content, 1)
        md_links == findall_md_links(content, 1)
    IN {SplitFirst(wikilinks[i]) : i \in 1..Len(wikilinks)}
          \cup {md_links[i].url : i \in
                   {n \in 1..Len(md_links) :
                       /\ EndsWithMd(md_links[n].url)
                       /\ ~StartsWithHttp(md_links[n].url)}}

\* _extract_links on the text of a document (extract_links above is the
\* same on a note that is given by its links)
extract_links_of(content) ==
    LET wikilinks == findall_wikilinks(content, 1)
        md_links == findall_md_links(content, 1)
    IN {Strip(SplitFirst(wikilinks[i])) : i \in 1..Len(wikilinks)}
          \cup {md_links[i].url : i \in
                   {n \in 1..Len(md_links) :
                       /\ EndsWithMd(md_links[n].url)
                       /\ ~StartsWithHttp(md_links[n].url)}}

\* _extract_tags
extract_tags(content) ==
    LET tags == findall_tags(content, 1)
    IN {tags[i] : i \in 1..Len(tags)}

\* MarkdownDocument(path, content)
MarkdownDocument(content) ==
    [content |-> content, links |-> extract_links_of(content),
     tags |-> extract_tags(content)]

\* ------------------------------------------------- RAGEngine: generation
\* What the POST to /api/generate does: "ok" (status 200 with a response
\* text), "empty" (status 200 with an empty or missing "response"), "badjson"
\* (status 200 with a body that is not JSON), "non200", "refused" and
\* "timeout" (requests.post raises).
GenOutcomes == {"ok", "empty", "badjson", "non200", "refused", "timeout"}

\* The outcomes with which the endpoint fails
GenFailures == {"non200", "refused", "timeout"}

\* A response text: the model's answer to a prompt, or the fixed text
NoResponse == [kind |-> "none", prompt |-> <<>>]

ModelResponse(prompt) == [kind |-> "model", prompt |-> prompt]

\* "... no AI model is currently available for generating responses ..."
FallbackResponse == [kind |-> "fallback", prompt |-> <<>>]

\* _build_rag_prompt over the context of the retrieved documents
BuildPrompt(query, context_docs) ==
    <<query, [i \in 1..Len(context_docs) |-> context_docs[i].doc.path]>>

\* GenerateRequests retrying a failed request once
GenerateRequests_retry(outcome) == IF outcome \in GenFailures THEN 2 ELSE 1

\* The requests _generate_with_ollama sends: one requests.post
GenerateRequests(outcome) == 1

\* _generate_with_ollama: the text of a 200 answer, None otherwise
generate_with_ollama(prompt, outcome) ==
    IF outcome = "ok" THEN ModelResponse(prompt) ELSE NoResponse

\* generate_with_llm returning what _generate_with_ollama returned
generate_with_llm_nofallback(prompt, outcome) ==
    generate_with_ollama(prompt, outcome)

\* _generate_with_llm: the answer if there is one, else the fixed text
generate_with_llm(prompt, outcome) ==
    LET response == generate_with_ollama(prompt, outcome)
    IN IF response.kind = "model" THEN response ELSE FallbackResponse

\* The queries generate_response is called with: a blank one and one that
\* retrieves documents
GenQueries == {QueryList[2], QueryList[3]}

\* The k of the search generate_response makes, and its default min_score
GenerateK == 3

DefaultMinScore == <<1, 10>>

\* generate_response(query, context_docs): given says whether the caller
\* passed context_docs
generate_response(e, store, query, given, context_docs, outcome, numpy) ==
    LET found == IF given
                 THEN [err |-> "none", results |-> context_docs,
                       embedCalls |-> 0, storeCalls |-> 0]
                 ELSE rag_search(e, store, query, GenerateK, DefaultMinScore,
                                 numpy)
    IN IF found.err # "none"
       THEN [raised |-> TRUE, response |-> NoResponse, requests |-> 0]
       ELSE [raised |-> FALSE,
             response |-> generate_with_llm(BuildPrompt(query, found.results),
                                            outcome),
             requests |-> GenerateRequests(outcome)]

\* ------------------------------------------------------------ observation
NoCall ==
    [op |-> "none", force |-> FALSE, err |-> "none", ret |-> 0,
     results |-> <<>>, k |-> 0, query |-> <<>>, texts |-> <<>>,
     vectors |-> <<>>, embedCalls |-> 0, storeCalls |-> 0, embedded |-> {},
     path |-> 0, afterIndex |-> FALSE, encodeOK |-> TRUE, outcomes |-> <<>>,
     response |-> NoResponse, requests |-> 0, outcome |-> "none",
     min_score |-> <<0, 1>>,
     spans |-> <<>>, document |-> [content |-> <<>>, links |-> {}, tags |-> {}],
     found |-> {}, graph |-> [nodes |-> {}, edges |-> {}], file |-> <<>>]

Call(op) == [NoCall EXCEPT !.op = op]

\* ------------------------------------------------- actions: knowledge base
\* last.afterIndex: the step before was an index run of the engine that
\* returned.
AfterIndex == alive /\ last.op = "index" /\ last.err = "none"

\* A markdown file is created or rewritten.
WriteFile(p) ==
    /\ kb[p].mtime < MaxTime
    /\ kb' = [kb EXCEPT ![p] = [exists |-> TRUE, mtime |-> kb[p].mtime + 1]]
    /\ last' = [Call("write") EXCEPT
                  !.path = p,
                  !.afterIndex = AfterIndex]
    /\ UNCHANGED <<notes, hasNumpy, dirExists, disk, vs, indexed_files, alive, kills, emb>>

DeleteFile(p) ==
    /\ kb[p].exists
    /\ kb' = [kb EXCEPT ![p].exists = FALSE]
    /\ last' = [Call("delete") EXCEPT !.path = p]
    /\ UNCHANGED <<notes, hasNumpy, dirExists, disk, vs, indexed_files, alive, kills, emb>>

\* ----------------------------------------------------- actions: RAGEngine
\* RAGEngine(kb_path, index_path): a fresh engine loads the persisted index.
Construct ==
    /\ alive' = TRUE
    /\ emb' = DefaultEmbedding
    /\ vs' = load_index(disk, get_dimension(DefaultEmbedding))
    /\ indexed_files' = load_indexed_files(disk)
    /\ last' = Call("construct")
    /\ UNCHANGED <<notes, hasNumpy, dirExists, disk, kb, kills>>

\* Another program of the repository keeps its index in the directory: a
\* VectorStore(index_path, dimension) that is saved while empty.
SaveOtherIndex(dimension) ==
    /\ dirExists
    /\ disk' = save_index(NewStore(dimension), disk, dirExists, hasNumpy, 3)
    /\ last' = Call("othersave")
    /\ UNCHANGED <<notes, hasNumpy, dirExists, vs, kb, indexed_files, alive, kills, emb>>

StoreAtStart(force) == IF force THEN clear(vs) ELSE vs

RecordAtStart(force) == IF force THEN EmptyDict ELSE indexed_files

IndexDocs(order) == [i \in 1..Len(order) |-> DocMetadata(order[i], kb)]

IndexTexts(order) ==
    [i \in 1..Len(order) |-> DocText(order[i], kb[order[i]].mtime)]

IndexEmbeddings(order) ==
    embed(emb, IndexTexts(order), TRUE, [i \in 1..Len(order) |-> "ok"],
          hasNumpy, TRUE).vectors

IndexAdded(force, order) ==
    add_documents(StoreAtStart(force), IndexDocs(order), IndexEmbeddings(order),
                  hasNumpy, hasNumpy)

\* index_knowledge_base(force_reindex), run to its return (or to the
\* exception add_documents raises).
index_knowledge_base(force) ==
    /\ alive
    /\ LET new == NewDocuments(RecordAtStart(force), kb)
           added == IndexAdded(force, ScanOrder(new))
           ok == added.err = "none"
       IN /\ Len(StoreAtStart(force).vectors) + Cardinality(new) <= MaxStore
          /\ indexed_files' = RecordAfter(RecordAtStart(force), kb)
          /\ vs' = IF new = {} THEN StoreAtStart(force) ELSE added.store
          /\ disk' = IF new = {} \/ ~ok THEN disk
                     ELSE save_indexed_files(
                            indexed_files',
                            save_index(added.store, disk, dirExists, hasNumpy, 3),
                            dirExists)
          /\ last' = [Call("index") EXCEPT
                        !.force = force,
                        !.err = IF new = {} THEN "none" ELSE added.err,
                        !.ret = Cardinality(new),
                        !.embedded = new,
                        !.afterIndex = AfterIndex,
                        !.embedCalls = IF new = {} THEN 0 ELSE 1]
    /\ UNCHANGED <<notes, hasNumpy, dirExists, kb, alive, kills, emb>>

\* index_knowledge_base(force_reindex) in a process that is killed after
\* `writes` of the run's four file writes (vectors, documents, metadata,
\* indexed files record) are complete.
index_killed(force, writes) ==
    /\ alive
    /\ kills < MaxKills
    /\ kills' = kills + 1
    /\ LET new == NewDocuments(RecordAtStart(force), kb)
       IN /\ Len(StoreAtStart(force).vectors) + Cardinality(new) <= MaxStore
          /\ writes > 0 => new # {}
          /\ disk' = IF writes = 0 THEN disk
                     ELSE save_index(IndexAdded(force, ScanOrder(new)).store,
                                     disk, dirExists, hasNumpy, writes)
    /\ alive' = FALSE
    /\ vs' = NewStore(FallbackDim)
    /\ indexed_files' = EmptyDict
    /\ last' = [Call("killed") EXCEPT !.force = force, !.ret = writes]
    /\ UNCHANGED <<notes, hasNumpy, dirExists, kb, emb>>

\* RAGEngine.search(query, k, min_score)
Search(query, k, min_score) ==
    /\ alive
    /\ LET r == rag_search(emb, vs, query, k, min_score, hasNumpy)
       IN last' = [Call("search") EXCEPT
                     !.err = r.err, !.results = r.results, !.k = k,
                     !.query = query, !.embedCalls = r.embedCalls,
                     !.storeCalls = r.storeCalls, !.min_score = min_score]
    /\ UNCHANGED <<notes, hasNumpy, dirExists, disk, vs, kb, indexed_files, alive, kills, emb>>

\* RAGEngine.generate_response(query, context_docs)
Generate(query, given, outcome) ==
    /\ alive
    /\ LET r == generate_response(emb, vs, query, given, <<>>, outcome,
                                  hasNumpy)
       IN last' = [Call("generate") EXCEPT
                     !.err = IF r.raised THEN "raised" ELSE "none",
                     !.query = query, !.response = r.response,
                     !.requests = r.requests, !.outcome = outcome]
    /\ UNCHANGED <<notes, hasNumpy, dirExists, disk, vs, kb, indexed_files, alive, kills, emb>>

\* ----------------------------------------------- actions: markdown parser
\* A note is created or rewritten.
WriteNote(path, spans) ==
    /\ notes' = [notes EXCEPT ![path] = Note(PathStem(path), spans)]
    /\ last' = [Call("writenote") EXCEPT !.file = path]
    /\ UNCHANGED <<hasNumpy, dirExists, disk, vs, kb, indexed_files, alive, kills, emb>>

DeleteNote(path) ==
    /\ notes[path].exists
    /\ notes' = [notes EXCEPT ![path] = NoNote]
    /\ last' = [Call("deletenote") EXCEPT !.file = path]
    /\ UNCHANGED <<hasNumpy, dirExists, disk, vs, kb, indexed_files, alive, kills, emb>>

\* find_orphaned_files(kb_path)
FindOrphans ==
    /\ last' = [Call("orphans") EXCEPT !.found = find_orphaned_files(notes)]
    /\ UNCHANGED <<notes, hasNumpy, dirExists, disk, vs, kb, indexed_files, alive, kills, emb>>

\* generate_graph_data(kb_path)
GraphData ==
    /\ last' = [Call("graph") EXCEPT !.graph = generate_graph_data(notes)]
    /\ UNCHANGED <<notes, hasNumpy, dirExists, disk, vs, kb, indexed_files, alive, kills, emb>>

\* MarkdownDocument(path).get_backlinks(kb_path)
Backlinks(path) ==
    /\ notes[path].exists
    /\ last' = [Call("backlinks") EXCEPT
                  !.file = path, !.found = get_backlinks(notes, path)]
    /\ UNCHANGED <<notes, hasNumpy, dirExists, disk, vs, kb, indexed_files, alive, kills, emb>>

\* A document is written, span after span, and parsed after each:
\* MarkdownDocument(path, content)
ParseDocument(span, sep) ==
    /\ Len(last.spans) < MaxSpans
    /\ last' = [Call("parse") EXCEPT
                  !.spans = Append(last.spans, span),
                  !.document = MarkdownDocument(
                      last.document.content \o sep \o SpanText(span))]
    /\ UNCHANGED <<notes, hasNumpy, dirExists, disk, vs, kb, indexed_files, alive, kills, emb>>

\* --------------------------------------------------- actions: VectorStore
\* The metadata a caller of the store passes with a vector: it names the
\* vector's components.
CompList == <<<<0, 0>>, <<1, 0>>, <<1, 1>>>>

VSDoc(v) ==
    [path |-> CHOOSE i \in DOMAIN CompList : CompList[i] = v.comp,
     modified |-> 0]

\* VectorStore(index_path, dimension)
VSConstruct(dimension) ==
    /\ vs' = load_index(disk, dimension)
    /\ last' = Call("construct")
    /\ UNCHANGED <<notes, hasNumpy, dirExists, disk, kb, indexed_files, alive, kills, emb>>

\* add_documents(documents, embeddings), the embeddings a list or, with
\* numpy, an array (which is rectangular)
VSAdd(embeddings, asArray) ==
    /\ Len(vs.vectors) + Len(embeddings) <= MaxVectors
    /\ asArray => hasNumpy /\ ~Ragged(embeddings)
    /\ LET documents == [i \in 1..Len(embeddings) |-> VSDoc(embeddings[i])]
           r == add_documents(vs, documents, embeddings, asArray, hasNumpy)
       IN /\ vs' = r.store
          /\ last' = [Call("add") EXCEPT !.err = r.err, !.vectors = embeddings]
    /\ UNCHANGED <<notes, hasNumpy, dirExists, disk, kb, indexed_files, alive, kills, emb>>

\* search(query_embedding, k)
VSSearch(query_embedding, k) ==
    /\ LET r == search(vs, query_embedding, k, hasNumpy)
       IN last' = [Call("search") EXCEPT
                     !.err = r.err, !.results = r.results, !.k = k,
                     !.vectors = <<query_embedding>>]
    /\ UNCHANGED <<notes, hasNumpy, dirExists, disk, vs, kb, indexed_files, alive, kills,
                   emb>>

VSClear ==
    /\ vs' = clear(vs)
    /\ last' = Call("clear")
    /\ UNCHANGED <<notes, hasNumpy, dirExists, disk, kb, indexed_files, alive, kills, emb>>

VSSave ==
    /\ disk' = save_index(vs, disk, dirExists, hasNumpy, 3)
    /\ last' = Call("save")
    /\ UNCHANGED <<notes, hasNumpy, dirExists, vs, kb, indexed_files, alive, kills, emb>>

Batches == UNION {[1..n -> Vectors] : n \in 1..MaxBatch}

\* ----------------------------------------------- actions: EmbeddingEngine
\* EmbeddingEngine(model_name, backend)
EmbConstruct(backend, libOK, probe, modelDim) ==
    /\ emb' = [backend |-> backend, model |-> load_model(backend, libOK, probe),
               modelDim |-> modelDim]
    /\ last' = Call("construct")
    /\ UNCHANGED <<notes, hasNumpy, dirExists, disk, vs, kb, indexed_files, alive, kills>>

\* What the inputs of an embed call range over: an input the engine's model
\* never reads is held at one value.
EncodeResults == IF emb.model = "library" THEN BOOLEAN ELSE {TRUE}

RequestOutcomes(n) ==
    [1..n -> IF emb.model = "ollama" THEN OllamaOutcomes ELSE {"ok"}]

RaggedResults == IF emb.model = "ollama" /\ hasNumpy THEN BOOLEAN ELSE {TRUE}

\* embed(texts)
Embed(texts, encodeOK, outcomes, raggedRaises) ==
    /\ LET r == embed(emb, texts, encodeOK, outcomes, hasNumpy, raggedRaises)
       IN last' = [Call("embed") EXCEPT
                     !.texts = texts, !.vectors = r.vectors,
                     !.err = IF r.raised THEN "raised" ELSE "none",
                     !.encodeOK = encodeOK, !.outcomes = outcomes]
    /\ UNCHANGED <<notes, hasNumpy, dirExists, disk, vs, kb, indexed_files, alive, kills,
                   emb>>

\* The batches of texts embedded: the first n of the documents' texts taken
\* in turn, so that neighbours in a batch differ.
TextBatches ==
    {[i \in 1..n |-> DocText(((i - 1) % Cardinality(Paths)) + 1, 1)] :
        n \in 1..MaxBatch}

\* ------------------------------------------------------- specifications
Init ==
    /\ hasNumpy \in BOOLEAN
    /\ dirExists \in BOOLEAN
    /\ disk = NoFiles
    /\ kb = [p \in Paths |-> NoFile]
    /\ alive = TRUE
    /\ kills = 0
    /\ emb = DefaultEmbedding
    /\ notes = [path \in NoteFiles |-> NoNote]
    /\ vs = load_index(NoFiles, get_dimension(DefaultEmbedding))
    /\ indexed_files = load_indexed_files(NoFiles)
    /\ last = NoCall

\* The engine over a changing knowledge base, each process running its
\* calls to the end.
Next ==
    \/ \E p \in Paths : WriteFile(p)
    \/ \E p \in Paths : DeleteFile(p)
    \/ Construct
    \/ \E force \in BOOLEAN : index_knowledge_base(force)

Spec == Init /\ [][Next]_vars

\* The engine with processes killed during an index run.
NextCrash ==
    \/ \E p \in Paths : WriteFile(p)
    \/ Construct
    \/ \E force \in BOOLEAN : index_knowledge_base(force)
    \/ \E force \in BOOLEAN, writes \in 0..3 : index_killed(force, writes)

SpecCrash == Init /\ [][NextCrash]_vars

\* The engine answering queries.
NextSearch ==
    \/ \E p \in Paths : WriteFile(p)
    \/ index_knowledge_base(FALSE)
    \/ \E q \in Queries, k \in 0..MaxK, ms \in MinScores : Search(q, k, ms)

\* Searching reads no file of the index directory: it is taken to exist.
InitSearch == Init /\ dirExists

SpecSearch == InitSearch /\ [][NextSearch]_vars

\* The engine over a changing knowledge base, on an index directory that
\* exists: every save is written.
SpecDir == InitSearch /\ [][Next]_vars

\* The engine on an index directory in which stores of other dimensions
\* are saved too.
NextShared ==
    \/ \E p \in Paths : WriteFile(p)
    \/ \E d \in Dims : SaveOtherIndex(d)
    \/ Construct
    \/ \E force \in BOOLEAN : index_knowledge_base(force)

SpecShared == InitSearch /\ [][NextShared]_vars

\* The engine generating responses.
NextGen ==
    \/ \E p \in Paths : WriteFile(p)
    \/ index_knowledge_base(FALSE)
    \/ \E q \in GenQueries, given \in BOOLEAN, o \in GenOutcomes :
          Generate(q, given, o)

SpecGen == InitSearch /\ [][NextGen]_vars

\* The knowledge graph functions over a changing set of notes.
NextMd ==
    \/ \E path \in NoteFiles, spans \in Contents : WriteNote(path, spans)
    \/ \E path \in NoteFiles : DeleteNote(path)
    \/ FindOrphans
    \/ GraphData
    \/ \E path \in NoteFiles : Backlinks(path)

SpecMd == Init /\ [][NextMd]_vars

\* Documents parsed from their content.
NextParse ==
    \E span \in ContentSpans, sep \in Separators : ParseDocument(span, sep)

SpecParse == Init /\ [][NextParse]_vars

\* The vector store called directly: adding and searching.
NextVS ==
    \/ \E e \in Batches, asArray \in BOOLEAN : VSAdd(e, asArray)
    \/ \E q \in Vectors, k \in 0..MaxK : VSSearch(q, k)
    \/ VSClear

SpecVS == Init /\ [][NextVS]_vars

\* The vector store called directly: saving and loading.
NextVSDisk ==
    \/ \E e \in Batches, asArray \in BOOLEAN : VSAdd(e, asArray)
    \/ VSClear
    \/ VSSave
    \/ \E d \in Dims : VSConstruct(d)

SpecVSDisk == Init /\ [][NextVSDisk]_vars

\* The embedding engine over its backends.
NextEmb ==
    \/ \E b \in Backends, libOK \in BOOLEAN, probe \in {"ok", "non200", "exception"},
          d \in Dims : EmbConstruct(b, libOK, probe, d)
    \/ \E t \in TextBatches, encodeOK \in EncodeResults,
          raggedRaises \in RaggedResults :
          \E o \in RequestOutcomes(Len(t)) : Embed(t, encodeOK, o, raggedRaises)

SpecEmb == Init /\ [][NextEmb]_vars

\* ------------------------------------------------------------------ claims
\* C1: a second index_knowledge_base(force_reindex=False) right after an
\* index run that returned, on the same engine and with no file changed in
\* between, returns 0 and leaves the vector store as it was.
C1_SecondRunIndexesNothing ==
    [][(AfterIndex /\ last'.op = "index" /\ ~last'.force)
         => (last'.ret = 0 /\ vs' = vs)]_vars

C1_Witness ==
    /\ last.op = "index" /\ last.afterIndex /\ ~last.force
    /\ last.ret = 0
    /\ Len(vs.vectors) = 2

\* C2: index_knowledge_base(force_reindex=False) embeds exactly the parsed
\* documents whose path is absent from the record or whose modification
\* time is greater than the recorded one, and returns their number; run
\* after an index run and one write of a document, it embeds exactly that
\* document.
C2_EmbedsExactlyNewOrModified ==
    [][(last'.op = "index" /\ ~last'.force)
         => /\ last'.embedded =
                  {p \in Paths : /\ kb[p].exists
                                 /\ \/ p \notin DOMAIN indexed_files
                                    \/ kb[p].mtime > indexed_files[p]}
            /\ last'.ret = Cardinality(last'.embedded)
            /\ Len(vs'.vectors) = Len(vs.vectors) + last'.ret
            /\ (last.op = "write" /\ last.afterIndex /\ alive)
                  => last'.embedded = {last.path}]_vars

C2_Witness ==
    /\ last.op = "index" /\ ~last.force /\ last.ret = 1
    /\ DOMAIN indexed_files = Paths
    /\ Len(vs.vectors) = 3

NonIncreasing(results) ==
    \A i \in 1..(Len(results) - 1) :
        ~ScoreLt(results[i].score, results[i + 1].score)

\* C3: for every k >= 0 search returns at most k pairs, by non-increasing
\* score, all the documents when fewer than k are stored, and the empty
\* list without error on an empty store.
C3_AtMostK ==
    last.op = "search" =>
        LET n == Cardinality(DOMAIN vs.documents)
        IN /\ n = 0 => (last.results = <<>> /\ last.err = "none")
           /\ last.err = "none" =>
                /\ Len(last.results) <= last.k
                /\ NonIncreasing(last.results)
                /\ n < last.k => Len(last.results) = n

\* C4: add_documents with embeddings of a dimension other than the store's
\* raises the dimension error and leaves documents, vectors and next_id as
\* they were.
C4_MismatchRaisesAndKeepsStore ==
    [][(/\ last'.op = "add"
        /\ \A i \in 1..Len(last'.vectors) : last'.vectors[i].len # vs.dimension)
         => (last'.err = "dimension" /\ vs' = vs)]_vars

C4_Witness ==
    /\ last.op = "add" /\ last.err = "dimension"
    /\ \A i \in 1..Len(last.vectors) : last.vectors[i].len # vs.dimension
    /\ Len(vs.vectors) > 0

\* C5: the next-ID counter never decreases, so no ID is assigned twice,
\* also over clear().
C5_CounterNeverDecreases == [][vs'.next_id >= vs.next_id]_vars

\* C6: after save_index, a new VectorStore on the same index directory has
\* the same document count, dimension and next_id, and ranks every query the
\* same.
C6_SaveLoadRoundTrip ==
    (last.op = "save" /\ Len(vs.vectors) > 0) =>
        LET loaded == load_index(disk, vs.dimension)
        IN /\ Cardinality(DOMAIN loaded.documents)
                = Cardinality(DOMAIN vs.documents)
           /\ loaded.dimension = vs.dimension
           /\ loaded.next_id = vs.next_id
           /\ \A q \in Vectors, k \in 0..MaxK :
                 search(loaded, q, k, hasNumpy) = search(vs, q, k, hasNumpy)

\* The embedding of the content a document's metadata describes
OwnVector(doc) ==
    normalize_vector(simple_hash_embed(DocText(doc.path, doc.modified)))

\* C7: an engine constructed after a process was killed during
\* index_knowledge_base loads every persisted ID paired with its own vector.
C7_LoadedEntriesIntact ==
    (last.op = "construct" /\ kills > 0) =>
        \A id \in DOMAIN vs.documents :
            /\ id < Len(vs.vectors)
            /\ vs.vectors[id + 1] = OwnVector(vs.documents[id])

\* C8: every vector embed returns has length get_dimension() (with a daemon
\* whose 200 answers all carry an embedding).
C8_VectorsHaveReportedDimension ==
    (last.op = "embed"
       /\ \A i \in 1..Len(last.texts) : last.outcomes[i] # "noembedding") =>
        \A i \in 1..Len(last.vectors) : last.vectors[i].len = get_dimension(emb)

\* An exception inside embed: encode raising, or an Ollama request raising
InternalFailure ==
    \/ emb.model = "library" /\ ~last.encodeOK
    \/ emb.model = "ollama"
         /\ \E i \in 1..Len(last.texts) : last.outcomes[i] = "exception"

\* C9: embed never raises; it returns one vector per text, the i-th made
\* from the i-th text: the hash embedding of a text whose Ollama request is
\* answered with an error status, and of every text after an exception
\* inside.
C9_EmbedNeverRaises ==
    last.op = "embed" =>
        /\ last.err = "none"
        /\ Len(last.vectors) = Len(last.texts)
        /\ \A i \in 1..Len(last.texts) :
              last.vectors[i] \in {simple_hash_embed(last.texts[i]),
                                   OllamaVector(last.texts[i]),
                                   ModelVector(last.texts[i], emb.modelDim),
                                   EmptyVector}
        /\ \A i \in 1..Len(last.texts) :
              (InternalFailure \/ (emb.model = "ollama"
                                     /\ last.outcomes[i] = "non200"))
                 => last.vectors[i] = simple_hash_embed(last.texts[i])

C9_Witness ==
    /\ last.op = "embed" /\ emb.model = "ollama"
    /\ Len(last.texts) = 2
    /\ last.outcomes = <<"ok", "exception">>
    /\ last.vectors[1] = simple_hash_embed(last.texts[1])

\* C10: RAGEngine.search with an empty or whitespace-only query returns the
\* empty list and calls neither the embedding engine nor the vector store.
C10_BlankQueryNoBackendCall ==
    (last.op = "search" /\ \A i \in 1..Len(last.query) : last.query[i] = " ")
        => /\ last.results = <<>>
           /\ last.embedCalls = 0
           /\ last.storeCalls = 0

C10_Witness ==
    /\ last.op = "search" /\ last.query = <<" ">>
    /\ last.embedCalls = 0
    /\ Len(vs.vectors) > 0
\* C11: generate_response does not raise when the generation endpoint
\* fails (connection refused, a non-200 answer, a timeout): it returns the
\* fixed text saying that no AI model is currently available.
C11_FailureGivesFallbackText ==
    (last.op = "generate" /\ last.outcome \in GenFailures)
        => (last.err = "none" /\ last.response = FallbackResponse)

C11_Witness ==
    /\ last.op = "generate" /\ last.outcome = "timeout"
    /\ last.response = FallbackResponse
    /\ Len(vs.vectors) > 0

\* C12: one generate_response call sends at most one request to the
\* generation endpoint, whatever the request's outcome.
C12_AtMostOneRequest == last.op = "generate" => last.requests <= 1

C12_Witness ==
    /\ last.op = "generate" /\ last.outcome = "refused"
    /\ last.requests = 1
\* C13: IDs and vectors are parallel-indexed: the document map's keys are
\* 0..n-1 for n stored vectors, next_id is n, and search returns the
\* document of ID i with the score of the vector at position i.
C13_ParallelIndexed ==
    LET n == Len(vs.vectors)
    IN /\ DOMAIN vs.documents = 0..(n - 1)
       /\ vs.next_id = n
       /\ \A id \in DOMAIN vs.documents :
             vs.documents[id] = VSDoc(vs.vectors[id + 1])
       /\ \A q \in Vectors, k \in 0..MaxK :
             LET r == search(vs, q, k, hasNumpy)
             IN \A i \in 1..Len(r.results) :
                   /\ r.results[i].doc = VSDoc(vs.vectors[r.results[i].idx + 1])
                   /\ r.results[i].score =
                         Similarity(vs.vectors[r.results[i].idx + 1],
                                    normalize_vector(q))

C13_Witness ==
    /\ last.op = "construct"
    /\ Len(vs.vectors) = 2
    /\ vs.vectors[1] # vs.vectors[2]

\* C14: add_documents with any embedding, not only the first, of a length
\* other than the store's dimension fails with an error and stores nothing.
C14_EveryEmbeddingValidated ==
    [][(/\ last'.op = "add"
        /\ \E i \in 1..Len(last'.vectors) : last'.vectors[i].len # vs.dimension)
         => (last'.err # "none" /\ vs' = vs)]_vars

\* C19: clear() leaves the store without documents and vectors and changes
\* no file of the index directory; the files change at save_index only.
C19_ClearKeepsFiles ==
    [][/\ last'.op = "clear" =>
            /\ vs'.documents = EmptyDict
            /\ vs'.vectors = <<>>
            /\ disk' = disk
       /\ disk' # disk => last'.op = "save"]_vars

C19_Witness ==
    /\ last.op = "clear"
    /\ Len(vs.vectors) = 0
    /\ disk.vectors # None
    /\ Len(disk.vectors[1]) > 0
\* C20: an index run that finds no new or modified document writes no file
\* of the index directory; a run that embeds at least one document has
\* saved the vector store and the indexed-files record when it returns.
C20_SavesExactlyWhenEmbedding ==
    [][(last'.op = "index" /\ last'.err = "none") =>
          /\ last'.ret = 0 => disk' = disk
          /\ last'.ret > 0 =>
                /\ disk'.vectors = Some(vs'.vectors)
                /\ disk'.documents = Some(json_dump_documents(vs'.documents))
                /\ disk'.metadata = Some(StoreMetadata(vs', hasNumpy))
                /\ disk'.indexed = Some(indexed_files')]_vars
\* The notes that exist, and the texts of the links written in a note
Existing == {f \in NoteFiles : notes[f].exists}

Written(f) == {span.text : span \in notes[f].spans}

Wikilinking(f) ==
    {g \in Existing \ {f} :
        \E span \in notes[g].spans :
            /\ span.kind = "wiki"
            /\ span.text \in {<<notes[f].h1>>, <<PathStem(f)>>}}

\* C16: find_orphaned_files does not report a document that another
\* document wikilinks, and reports a document (other than the root index)
\* that no link names.
C16_WikilinkedNotOrphaned ==
    last.op = "orphans" =>
        \A f \in Existing :
            /\ Wikilinking(f) # {} => f \notin last.found
            /\ (f # IndexMd
                /\ \A g \in Existing :
                      Written(g) \cap {f, <<PathStem(f)>>, <<notes[f].h1>>} = {})
                  => f \in last.found

\* C17: generate_graph_data gives one node per document, edges between
\* nodes only, an edge from a note to each existing note it wikilinks, and
\* no edge for a link to a document that does not exist.
C17_GraphHasEdgePerResolvedLink ==
    last.op = "graph" =>
        /\ {node.id : node \in last.graph.nodes} = Existing
        /\ Cardinality(last.graph.nodes) = Cardinality(Existing)
        /\ \A edge \in last.graph.edges :
              edge.source \in Existing /\ edge.target \in Existing
        /\ \A f \in Existing : \A g \in Wikilinking(f) :
              \E edge \in last.graph.edges : edge.source = g /\ edge.target = f

\* C18: get_backlinks returns every other document with a wikilink to the
\* document, and never the document itself.
C18_BacklinksFindWikilinks ==
    last.op = "backlinks" =>
        /\ \A g \in Wikilinking(last.file) :
              \E b \in last.found : b.file = g
        /\ \A b \in last.found : b.file # last.file
C22_SearchBoundedAndFiltered ==
    (/\ last.op = "search" /\ last.err = "none"
     /\ \E i \in 1..Len(last.query) : last.query[i] # " ") =>
        LET stored == search(vs, simple_hash_embed(QueryText(last.query)),
                             last.k, hasNumpy).results
        IN /\ Len(last.results) <= last.k
           /\ \A i \in 1..Len(last.results) :
                 ScoreAtLeast(last.results[i].score, last.min_score)
           /\ NonIncreasing(last.results)
           /\ last.results =
                 SelectSeq(stored,
                           LAMBDA x : ScoreAtLeast(x.score, last.min_score))
\* C23: the links of a document are exactly the targets of its wikilinks
\* (without the display text, trimmed) and the urls of its hyperlinks that
\* end in .md and do not begin with http, each once; its tags are exactly
\* the tokens of the content that match #[A-Za-z0-9_-]+, without the #.
WrittenLinks(spans) ==
    {spans[i].target : i \in {n \in 1..Len(spans) : spans[n].kind = "wiki"}}
       \cup {spans[i].url : i \in
               {n \in 1..Len(spans) :
                   /\ spans[n].kind = "md"
                   /\ spans[n].url[Len(spans[n].url)] = ".md"
                   /\ spans[n].url[1] # "http"}}

TagTokens(c) ==
    UNION {{SubSeq(c, i + 1, j) :
              j \in {n \in (i + 1)..Len(c) :
                       /\ \A x \in (i + 1)..n : c[x] \in TagChars
                       /\ n < Len(c) => c[n + 1] \notin TagChars}} :
           i \in {n \in 1..Len(c) : c[n] = "#"}}

C24_StoredVectorsHaveUnitNorm ==
    \A i \in 1..Len(vs.vectors) :
        \/ SumSq(vs.vectors[i].comp) = vs.vectors[i].n2
        \/ /\ SumSq(vs.vectors[i].comp) = 0
           /\ \A j \in 1..Len(vs.vectors[i].comp) : vs.vectors[i].comp[j] = 0

C24_Witness ==
    /\ last.op = "construct"
    /\ disk.vectors = Some(vs.vectors)
    /\ Len(vs.vectors) = 2
    /\ \E i \in 1..2 : SumSq(vs.vectors[i].comp) = 2
    /\ \E i \in 1..2 : SumSq(vs.vectors[i].comp) = 0
\* C26: after an index run without force_reindex, the vector store holds at
\* most one entry per relative path, and as many documents as the
\* Indexed-File Record has paths.
C26_OneEntryPerPath ==
    (last.op = "index" /\ ~last.force /\ last.err = "none") =>
        /\ \A a, b \in DOMAIN vs.documents :
              vs.documents[a].path = vs.documents[b].path => a = b
        /\ Cardinality(DOMAIN vs.documents) = Cardinality(DOMAIN indexed_files)
\* C27: an index run without force_reindex in which add_documents raises
\* leaves the Indexed-File Record as it was before the call, so that each
\* document of the run still needs indexing.
C27_FailedRunKeepsRecord ==
    [][(last'.op = "index" /\ ~last'.force /\ last'.err # "none") =>
          /\ indexed_files' = indexed_files
          /\ \A p \in last'.embedded :
                NeedsIndexing(indexed_files', p, kb'[p].mtime)]_vars
\* C28: when index_knowledge_base(force_reindex=True) has returned, the
\* index directory holds the index the engine holds: an engine constructed
\* on it loads the same documents and the same Indexed-File Record, also
\* when the knowledge base held no document.
C28_ForcedReindexIsPersisted ==
    (last.op = "index" /\ last.force /\ last.err = "none") =>
        /\ load_index(disk, get_dimension(DefaultEmbedding)).documents
              = vs.documents
        /\ load_indexed_files(disk) = indexed_files
\* C29: after an index run without force_reindex, a document whose file is
\* deleted is not in the Indexed-File Record, and the vector store holds no
\* entry that a search could return for it.
C29_DeletedDocumentLeavesIndex ==
    (last.op = "index" /\ ~last.force /\ last.err = "none") =>
        \A p \in Paths :
            ~kb[p].exists =>
                /\ p \notin DOMAIN indexed_files
                /\ \A id \in DOMAIN vs.documents : vs.documents[id].path # p
\* C30: when an index run that embedded documents has returned, the index
\* files are written, also where the index directory did not exist before,
\* and an engine constructed on the directory finds no document to index.
C30_IndexIsDurable ==
    (last.op = "index" /\ last.err = "none" /\ last.ret > 0) =>
        /\ disk.vectors # None /\ disk.documents # None
        /\ disk.metadata # None /\ disk.indexed # None
        /\ NewDocuments(load_indexed_files(disk), kb) = {}
====
